---- MODULE Spec2Model ----
(***************************************************************************)
(* SimpleBitmap (src/src/simple_bitmap.rs): a growable bitmap backed by a  *)
(* Vec<u32>, with set, get and the union operator `|` (BitOr).             *)
(*                                                                         *)
(* A u32 word is a function from bit positions 0..31 to {0,1}; the word    *)
(* operators below (|, &, <<, >>) are computed bit by bit.  An index is a  *)
(* natural number.  A Vec<u32> is a sequence of words; Rust position p is  *)
(* TLA+ position p+1.                                                      *)
(***************************************************************************)
EXTENDS Integers, Sequences, FiniteSets, TLC

VARIABLES bm, hist, un, done, last, err

vars == <<bm, hist, un, done, last, err>>

(* ------------------------------ bounds --------------------------------- *)

\* the highest word position a set call of the model addresses
MaxWord == 2

(* ------------------------- program constants --------------------------- *)

\* width of a stored word (u32), the divisor in `index / 32`
WordBits == 32

\* the mask in `index & 0b11111`
BitMask == 31

\* u32::MAX div 32 + 1: the largest length `u32_index_in_bits_vec + 1` that a
\* u32 index can ask resize for; it is below usize::MAX on every target whose
\* usize has at least 32 bits, so the addition cannot overflow iff the new
\* length stays within it
MaxNewLen == 134217728

(* ----------------------------- u32 words ------------------------------- *)

BitIdx == 0..(WordBits - 1)

\* the u32 literal 0
Zero == [k \in BitIdx |-> 0]

\* the u32 literal 0b1
One == [k \in BitIdx |-> IF k = 0 THEN 1 ELSE 0]

\* x | y on u32
WordOr(x, y) == [k \in BitIdx |-> IF x[k] = 1 \/ y[k] = 1 THEN 1 ELSE 0]

\* x & y on u32
WordAnd(x, y) == [k \in BitIdx |-> IF x[k] = 1 /\ y[k] = 1 THEN 1 ELSE 0]

\* x << n on u32, for n < 32 (a larger n is an overflow, see ShiftOverflows)
Shl(x, n) == [k \in BitIdx |-> IF k >= n THEN x[k - n] ELSE 0]

\* x >> n on u32, for n < 32
Shr(x, n) == [k \in BitIdx |-> IF k + n < WordBits THEN x[k + n] ELSE 0]

\* a shift by the word width or more overflows (a panic in a checked build)
ShiftOverflows(n) == n >= WordBits

\* a & b on unsigned integers, bit by bit
RECURSIVE NatAnd(_, _)
NatAnd(a, b) ==
    IF a = 0 \/ b = 0 THEN 0
    ELSE (a % 2) * (b % 2) + 2 * NatAnd(a \div 2, b \div 2)

(* ---------------------------- addressing ------------------------------- *)

\* u32_index_in_bits_vec = (index / 32) as usize
WordPos(index) == index \div WordBits

\* bit_index_in_u32 = index & 0b11111
BitPosWide(index) == NatAnd(index, 2 * BitMask + 1)
BitPosNarrow(index) == NatAnd(index, BitMask \div 2)
BitPos(index) == NatAnd(index, BitMask)

(* ------------------------------ Vec<u32> ------------------------------- *)

\* Vec::resize(new_len, value): truncates, or appends copies of value
Resize(v, newLen, value) ==
    IF newLen <= Len(v) THEN SubSeq(v, 1, newLen)
    ELSE v \o [k \in 1..(newLen - Len(v)) |-> value]

\* the resize step of set: only when the word position is not yet in bounds
GrowOnes(bits, index) ==
    IF WordPos(index) >= Len(bits)
    THEN Resize(bits, WordPos(index) + 1, One)
    ELSE bits
GrowDoubling(bits, index) ==
    IF WordPos(index) >= Len(bits)
    THEN Resize(bits, 2 * (WordPos(index) + 1), Zero)
    ELSE bits
Grow(bits, index) ==
    IF WordPos(index) >= Len(bits)
    THEN Resize(bits, WordPos(index) + 1, Zero)
    ELSE bits

(* -------------------------------- set ---------------------------------- *)

\* set reaches an error: the new length overflows, the shift overflows, or
\* self.bits[u32_index_in_bits_vec] is out of bounds after the resize
SetPanics(bits, index) ==
    \/ (WordPos(index) >= Len(bits) /\ WordPos(index) + 1 > MaxNewLen)
    \/ ShiftOverflows(BitPos(index))
    \/ WordPos(index) >= Len(Grow(bits, index))

\* the word set writes back: stored_u32 | (0b1 << bit_index_in_u32)
ModifiedOverwrite(stored, index) == Shl(One, BitPos(index))
Modified(stored, index) == WordOr(stored, Shl(One, BitPos(index)))

\* SimpleBitmap::set, on a bitmap whose words are bits
setToggle(bits, index) ==
    LET grown  == Grow(bits, index)
        p      == WordPos(index) + 1
        stored == grown[p]
        mask   == Shl(One, BitPos(index))
    IN  [grown EXCEPT ![p] =
            [k \in BitIdx |-> IF mask[k] = 1 THEN 1 - stored[k] ELSE stored[k]]]
set(bits, index) ==
    LET grown  == Grow(bits, index)
        p      == WordPos(index) + 1
        stored == grown[p]
    IN  [grown EXCEPT ![p] = Modified(stored, index)]

(* -------------------------------- get ---------------------------------- *)

\* get reaches an error: the right shift overflows
GetPanics(bits, index) ==
    WordPos(index) < Len(bits) /\ ShiftOverflows(BitPos(index))

\* SimpleBitmap::get
get(bits, index) ==
    IF WordPos(index) < Len(bits)
    THEN LET bucket == bits[WordPos(index) + 1]
         IN  WordAnd(Shr(bucket, BitPos(index)), One) = One
    ELSE FALSE

(* ------------------------------- bitor --------------------------------- *)

\* the loop over iter::zip(&mut left_iter, &mut right_iter): Zip::next asks
\* the left iterator first and the right one only when the left one yielded.
\* Returns the words pushed and how many words each iterator has yielded.
RECURSIVE ZipLoop(_, _, _, _, _)
ZipLoop(l, r, li, ri, acc) ==
    IF li >= Len(l) THEN [union |-> acc, li |-> li, ri |-> ri]
    ELSE IF ri >= Len(r) THEN [union |-> acc, li |-> li + 1, ri |-> ri]
    ELSE ZipLoop(l, r, li + 1, ri + 1, Append(acc, WordOr(l[li + 1], r[ri + 1])))

\* what an iterator that has yielded n words still yields
Remaining(v, n) == SubSeq(v, n + 1, Len(v))

\* impl BitOr for SimpleBitmap: self | rhs
bitor(self, rhs) ==
    LET z == ZipLoop(self, rhs, 0, 0, << >>)
    IN  z.union \o Remaining(self, z.li) \o Remaining(rhs, z.ri)

(* --------------------------- the state machine ------------------------- *)

\* the two bitmaps a program builds with set, and the two unions of them
Operands == {"a", "b"}
Unions == {"ab", "ba"}

\* the indices passed to set on a: both sides of the first word boundary
\* (the bits 0 and 31 of word 0, bit 0 of word 1) and the last bit of every
\* later word
SetIndices ==
    {0, WordBits - 1, WordBits}
        \cup {w * WordBits + (WordBits - 1) : w \in 1..MaxWord}

\* the indices passed to set on b: the two sides of the first word boundary
\* (b has zero, one or two words, a up to MaxWord + 1)
NarrowIndices == {WordBits - 1, WordBits}

SetIndicesOf(t) == IF t = "a" THEN SetIndices ELSE NarrowIndices

\* two indices far beyond any storage (the second is the largest integer of
\* the model checker)
FarIndices == {1000000, 2147483647}

\* the indices passed to get: the set indices, a never set neighbour, the
\* first index behind the last addressed word, and the far ones
GetIndices ==
    SetIndices \cup {WordBits + 1, (MaxWord + 1) * WordBits} \cup FarIndices

\* the indices the properties are stated over: every index up to the word
\* behind the last addressed one, and the far ones
ProbeIndices == 0..((MaxWord + 2) * WordBits) \cup FarIndices

NoCall == [op |-> "none", tgt |-> "none", idx |-> 0, ret |-> FALSE, rep |-> FALSE]

\* SimpleBitmap::new() for both bitmaps; nothing has been called yet
Init ==
    /\ bm = [t \in Operands |-> << >>]
    /\ hist = [t \in Operands |-> {}]
    /\ un = [k \in Unions |-> << >>]
    /\ done = {}
    /\ last = NoCall
    /\ err = "none"

\* bm[t].set(i)
Set(t, i) ==
    /\ err = "none"
    /\ done = {}
    /\ IF SetPanics(bm[t], i)
       THEN /\ err' = "panic"
            /\ UNCHANGED <<bm, hist>>
       ELSE /\ bm' = [bm EXCEPT ![t] = set(@, i)]
            /\ hist' = [hist EXCEPT ![t] = @ \cup {i}]
            /\ err' = err
    /\ last' = [op |-> "set", tgt |-> t, idx |-> i, ret |-> FALSE,
                rep |-> (last.op = "set" /\ last.tgt = t /\ last.idx = i)]
    /\ UNCHANGED <<un, done>>

\* bm[t].get(i)
GetGrowing(t, i) ==
    /\ err = "none"
    /\ done = {}
    /\ last' = [op |-> "get", tgt |-> t, idx |-> i,
                ret |-> get(bm[t], i), rep |-> FALSE]
    /\ bm' = [bm EXCEPT ![t] = IF i \in FarIndices THEN @ ELSE Grow(@, i)]
    /\ UNCHANGED <<hist, un, done, err>>
Get(t, i) ==
    /\ err = "none"
    /\ done = {}
    /\ IF GetPanics(bm[t], i)
       THEN /\ err' = "panic"
            /\ last' = [op |-> "get", tgt |-> t, idx |-> i,
                        ret |-> FALSE, rep |-> FALSE]
       ELSE /\ err' = err
            /\ last' = [op |-> "get", tgt |-> t, idx |-> i,
                        ret |-> get(bm[t], i), rep |-> FALSE]
    /\ UNCHANGED <<bm, hist, un, done>>

\* x.clone() | y.clone(): un[x \o y] is the union with x on the left.  Once a
\* union is built the operands are moved out and no longer set or read.
Union(x, y) ==
    /\ err = "none"
    /\ x # y
    /\ (x \o y) \notin done
    /\ un' = [un EXCEPT ![x \o y] = bitor(bm[x], bm[y])]
    /\ done' = done \cup {x \o y}
    /\ last' = [op |-> "union", tgt |-> x \o y, idx |-> 0,
                ret |-> FALSE, rep |-> FALSE]
    /\ UNCHANGED <<bm, hist, err>>

Next ==
    \/ \E t \in Operands : \E i \in SetIndicesOf(t) : Set(t, i)
    \/ \E t \in Operands, i \in GetIndices : Get(t, i)
    \/ \E x \in Operands, y \in Operands : Union(x, y)

Spec == Init /\ [][Next]_vars

(* ------------------------------ properties ----------------------------- *)

Max(m, n) == IF m >= n THEN m ELSE n

\* the largest index of a non-empty set of indices
MaxOf(S) == CHOOSE m \in S : \A i \in S : i <= m

\* the operands of a union
Left(key) == IF key = "ab" THEN "a" ELSE "b"
Right(key) == IF key = "ab" THEN "b" ELSE "a"

\* C1: for bitmaps a and b built by set calls and every index i,
\* get(a | b, i) = get(a, i) \/ get(b, i), whatever the operands' lengths.
C1_UnionIsOr ==
    \A key \in done : \A i \in ProbeIndices :
        get(un[key], i) = (get(bm[Left(key)], i) \/ get(bm[Right(key)], i))

\* C2: every index that was passed to set reads true, also after later set
\* calls with other indices, including ones that grow the storage.
C2_SetBitsStay ==
    \A t \in Operands : \A i \in hist[t] : get(bm[t], i)

\* a bitmap where set(0) came after the sets of 31, 32 and the last index
C2_Witness ==
    /\ last.op = "set" /\ last.tgt = "a" /\ last.idx = 0
    /\ hist["a"] = SetIndices
    /\ Len(bm["a"]) = MaxWord + 1

\* C3: get is false for every index that was never passed to set: another
\* bit of an allocated word, a word created by growth, or beyond the end.
C3_UnsetBitsClear ==
    \A t \in Operands : \A i \in ProbeIndices \ hist[t] : ~get(bm[t], i)

\* only index 32 was set: word 0 was created by growth, word 1 has 31 other
\* bits, and everything from index 64 on is beyond the end; get(33) was called
C3_Witness ==
    /\ hist["a"] = {WordBits}
    /\ Len(bm["a"]) = 2
    /\ last.op = "get" /\ last.tgt = "a" /\ last.idx = WordBits + 1
    /\ ~last.ret

\* C4: a get call leaves every word sequence as it was; with the word
\* position at or past the end it returns false and does not fail.
C4_GetFrame ==
    [][last'.op = "get" =>
          /\ bm' = bm
          /\ un' = un
          /\ WordPos(last'.idx) >= Len(bm[last'.tgt]) =>
                (last'.ret = FALSE /\ err' = "none")]_vars

\* get(1000000) on the empty bitmap
C4_Witness ==
    /\ last.op = "get" /\ last.idx = 1000000
    /\ hist[last.tgt] = {}
    /\ bm[last.tgt] = << >>
    /\ ~last.ret
    /\ err = "none"

\* C5: a set(i) call that directly follows a set(i) call on the same bitmap
\* leaves the bitmap exactly as the first call left it.
C5_SetIdempotent ==
    [][(last'.op = "set" /\ last'.rep) => bm' = bm]_vars

\* set(32) twice in a row (the first call grew the storage or not)
C5_Witness ==
    /\ last.op = "set" /\ last.rep /\ last.idx = WordBits
    /\ get(bm[last.tgt], WordBits)

\* C6: for every index i, get(a | b, i) = get(b | a, i).
C6_UnionCommutes ==
    done = Unions =>
        \A i \in ProbeIndices : get(un["ab"], i) = get(un["ba"], i)

\* C7: set(i) sets bit (i mod 32) of word (i div 32), i & 0b11111 being
\* i mod 32, and changes no other bit of a word that existed before ...
C7_Step ==
    (last'.op = "set" /\ err' = "none") =>
        LET t == last'.tgt
            i == last'.idx
        IN  /\ BitPos(i) = i % WordBits
            /\ Len(bm'[t]) > i \div WordBits
            /\ bm'[t][(i \div WordBits) + 1][i % WordBits] = 1
            /\ \A p \in 1..Len(bm[t]) : \A k \in BitIdx :
                  (p # (i \div WordBits) + 1 \/ k # i % WordBits)
                      => bm'[t][p][k] = bm[t][p][k]

\* ... so that after set(31) and set(32) on an empty bitmap the two bits are
\* bit 31 of word 0 and bit 0 of word 1, get(31) and get(32) are true and
\* get(0)..get(30) and get(33) are false.
C7_Boundary ==
    \A t \in Operands :
        hist[t] = {31, 32} =>
            /\ Len(bm[t]) = 2
            /\ bm[t][1][31] = 1
            /\ bm[t][2][0] = 1
            /\ get(bm[t], 31)
            /\ get(bm[t], 32)
            /\ \A i \in (0..30) \cup {33} : ~get(bm[t], i)

C7_Addressing == []C7_Boundary /\ [][C7_Step]_vars

\* set(31) then set(32) on the empty bitmap
C7_Witness ==
    /\ hist["a"] = {31, 32}
    /\ last.op = "set" /\ last.tgt = "a" /\ last.idx = 32 /\ ~last.rep

\* C8: no call reaches an error state: in every set and get call made, the
\* shift amount is below the word width and the new length (index div 32) + 1
\* does not overflow, and after a set call the word position is within the
\* word sequence.
C8_NoPanic ==
    /\ err = "none"
    /\ last.op \in {"set", "get"} =>
          /\ ~ShiftOverflows(BitPos(last.idx))
          /\ WordPos(last.idx) + 1 <= MaxNewLen
    /\ last.op = "set" => WordPos(last.idx) < Len(bm[last.tgt])

\* a bitmap grown by set calls to its full length, then read at the largest
\* index, without an error
C8_Witness ==
    /\ last.op = "get" /\ last.tgt = "a" /\ last.idx = 2147483647
    /\ hist["a"] = SetIndices
    /\ ~last.ret
    /\ err = "none"

\* C9: a bitmap starts with zero words; once set was called it has
\* (m div 32) + 1 words, m the largest index ever set; a word that no set
\* call addressed is zero ...
C9_Len ==
    \A t \in Operands :
        Len(bm[t]) = IF hist[t] = {} THEN 0 ELSE (MaxOf(hist[t]) \div WordBits) + 1

C9_ZeroFill ==
    \A t \in Operands : \A p \in 1..Len(bm[t]) :
        (\A i \in hist[t] : (i \div WordBits) + 1 # p) => bm[t][p] = Zero

\* ... and no call makes the word count smaller, and the words a set call
\* creates, other than the addressed one, are zero.
C9_Step ==
    \A t \in Operands :
        /\ Len(bm'[t]) >= Len(bm[t])
        /\ \A p \in (Len(bm[t]) + 1)..Len(bm'[t]) :
              (last'.op = "set" /\ p # (last'.idx \div WordBits) + 1)
                  => bm'[t][p] = Zero

C9_StorageSize == [](C9_Len /\ C9_ZeroFill) /\ [][C9_Step]_vars

\* the first set call addresses the last word, the words before it are
\* created by growth; a later set(0) does not add words
C9_Witness ==
    /\ hist["a"] = {0, MaxWord * WordBits + (WordBits - 1)}
    /\ last.op = "set" /\ last.tgt = "a" /\ last.idx = 0
    /\ Len(bm["a"]) = MaxWord + 1
    /\ bm["a"][2] = Zero

\* C10: a | b has max(len a, len b) words; word p is a[p] | b[p] where both
\* operands have a word p, and the longer operand's word p behind the end of
\* the shorter one.
C10_UnionShape ==
    \A key \in done :
        LET l == bm[Left(key)]
            r == bm[Right(key)]
            u == un[key]
        IN  /\ Len(u) = Max(Len(l), Len(r))
            /\ \A p \in 1..Len(u) :
                  u[p] = IF p <= Len(l) /\ p <= Len(r) THEN WordOr(l[p], r[p])
                         ELSE IF p <= Len(l) THEN l[p]
                         ELSE r[p]

====
